---- MODULE Spec2Model ----
(***************************************************************************)
(* Model of the phoenix-bot decision engine: the candlestick buffer of     *)
(* src/rsi.ts (history seed and stream appends) and the trading cycle of   *)
(* src/run.ts (trade).                                                     *)
(*                                                                         *)
(* Scaling.  The code keeps 200 candles and uses the periods 14 / 45 / 9.  *)
(* The model keeps the code's comparisons but runs them with a capacity of *)
(* 5 candles (the capacity of the spec's own scenario), so that overflow   *)
(* and eviction happen within a few steps.                                 *)
(***************************************************************************)
EXTENDS Integers, Sequences, FiniteSets, TLC

----------------------------------------------------------------------------
(* Bounds of the model *)

MaxTime == 6        \* openTime values delivered by the feed: 1..MaxTime

MaxOrders == 2      \* open orders of the trader the venue is let to hold

MaxSockets == 3     \* candle-stream sockets created by initCandleStickWS

MaxTraders == 2     \* private keys configured
MaxAttempts == 31   \* attempts the delay of reconnect() is computed for

Times == 1..MaxTime

\* The closes the feed delivers: a bar of the history answer and a closed bar
\* of the stream differ in their prices even when their openTime is the same.
HistoryCloses == {1}
StreamCloses == {2}

----------------------------------------------------------------------------
(* src/rsi.ts: constants and state *)

MAX_CANDLE_STICKS_LENGTH == 5

VARIABLES
  candleSticks,     \* rsi.ts:19   the candle buffer
  fetchState,       \* rsi.ts:27   the history request of initFirstCandleSticks
  wsState,          \* rsi.ts:60   readyState of the candle-stream socket
  reconnecting,     \* rsi.ts:66   closure flag of the candle supervisor
  reconnectAttempts,\* rsi.ts:65   closure counter of the candle supervisor
  lastAdd,          \* rsi.ts:101  what the last buffer operation returned
  lenBefore,        \* history: the buffer's length before the last buffer operation
  scenario          \* history: progress through the seed 1..5 / append 6 / append 6 run

feedVars == <<candleSticks, fetchState, wsState, reconnecting,
              reconnectAttempts, lastAdd, lenBefore, scenario>>

VARIABLES
  priceWsState,     \* rsi.ts:134  readyState of the price-stream socket
  priceStream       \* rsi.ts:22   the latest live price

priceVars == <<priceWsState, priceStream>>

(* src/run.ts: state of trade() and of the venue it talks to *)
VARIABLES
  pc,                 \* where trade() stands
  sideway,            \* run.ts:37   parameter of trade()
  volume,             \* run.ts:38   parameter of trade()
  previousOrderCount, \* run.ts:43
  venueOrders,        \* the trader's open orders on the venue
  marketOrders,       \* the trader's open orders in the loaded marketState
  snapshot,           \* run.ts:113  the indicators of this iteration
  side,               \* run.ts:134  the side chosen in this iteration
  currentPrice,       \* run.ts:136  the price sampled in this iteration
  calls,              \* history: the steps and adapter calls of this iteration
  faulted,            \* history: some adapter call has thrown
  balances,           \* run.ts:259  the balances read in this iteration
  wraps,              \* history: the amounts this iteration asked to wrap
  placement,          \* history: how the placement of this iteration ended
  priceInTicks        \* run.ts:135  the limit price chosen in this iteration

tradeVars == <<pc, sideway, volume, previousOrderCount, venueOrders,
               marketOrders, snapshot, side, currentPrice, calls, faulted,
               balances, wraps, placement, priceInTicks>>

(* src/rsi.ts: the supervisor of the candle stream, one record for every
   call of initCandleStickWS *)
VARIABLES
  sockets,                     \* rsi.ts:60-66  the socket and the closure of each call
  activeCandleStickWebSockets, \* rsi.ts:20   the sockets in the list
  delays,                      \* history: the delays scheduled since the last open
  strayFrom,                   \* history: a socket outside the list that delivered a candle
  strayProbe,                  \* history: a socket outside the list that sent a ping
  uncaught                     \* an exception has left a handler

supVars == <<sockets, activeCandleStickWebSockets, delays, strayFrom,
             strayProbe, uncaught>>

(* src/run.ts: main() *)
VARIABLES
  keyIndex,         \* run.ts:393  the private key the for loop of main() is at
  loops             \* for every private key, whether its trade() has run

mainVars == <<keyIndex, loops>>

vars == <<feedVars, priceVars, tradeVars, supVars, mainVars>>

----------------------------------------------------------------------------
(* Inputs of the market-data feed *)

RECURSIVE SortedSeq(_)
SortedSeq(S) ==
  IF S = {} THEN <<>>
  ELSE LET m == CHOOSE x \in S : \A y \in S : x <= y
       IN <<m>> \o SortedSeq(S \ {m})

\* One kline row of GET /api/v3/klines:
\* [openTime, open, high, low, close, volume, closeTime]
KlineRow(t, c) == <<t, c, c, c, c, 0, t>>

\* The answers of the history request: at most `limit` rows, ordered by
\* openTime.
Histories ==
  { [i \in 1..Len(SortedSeq(S)) |-> KlineRow(SortedSeq(S)[i], c)] :
      S \in { T \in SUBSET Times :
                Cardinality(T) <= MAX_CANDLE_STICKS_LENGTH },
      c \in HistoryCloses }

\* The parsed messages of the kline stream: a kline event (closed or not),
\* or an object without a kline.
KlineMessages ==
  { [k |-> [t |-> t, T |-> t, o |-> c, c |-> c, h |-> c, l |-> c, x |-> x]] :
      t \in Times, c \in StreamCloses, x \in BOOLEAN }
StreamMessages == KlineMessages \cup { [ping |-> 1] }

----------------------------------------------------------------------------
(* src/rsi.ts: pure helpers *)

candleStickFromAPIData(data) ==
  [i \in 1..Len(data) |->
     [openTime |-> data[i][1], closeTime |-> data[i][7],
      openPrice |-> data[i][2], closePrice |-> data[i][5],
      highPrice |-> data[i][3], lowPrice |-> data[i][4]]]

candleSticksFromWSData(message) ==
  [openTime |-> message.k.t, closeTime |-> message.k.T,
   openPrice |-> message.k.o, closePrice |-> message.k.c,
   highPrice |-> message.k.h, lowPrice |-> message.k.l]

OpenTimes(buf) == [i \in 1..Len(buf) |-> buf[i].openTime]

\* Array.prototype.pop: drops the last element, a no-op on the empty array.
Pop(s) == IF Len(s) = 0 THEN s ELSE SubSeq(s, 1, Len(s) - 1)

\* Array.prototype.shift: drops the first element.
Shift(s) == IF Len(s) = 0 THEN s ELSE SubSeq(s, 2, Len(s))

\* Variant of addCandleStick: rejects only a strictly older candle.
addCandleStick_AcceptsEqual(buf, candleStick) ==
  IF Len(buf) = 0
  THEN [buf |-> Append(buf, candleStick), ok |-> TRUE]
  ELSE IF buf[Len(buf)].openTime > candleStick.openTime
  THEN [buf |-> buf, ok |-> FALSE]
  ELSE LET pushed == Append(buf, candleStick)
       IN [buf |-> IF Len(pushed) > MAX_CANDLE_STICKS_LENGTH
                   THEN Shift(pushed) ELSE pushed,
           ok |-> TRUE]

\* Variant of addCandleStick: on overflow drops the newest candle.
addCandleStick_EvictsNewest(buf, candleStick) ==
  IF Len(buf) = 0
  THEN [buf |-> Append(buf, candleStick), ok |-> TRUE]
  ELSE IF buf[Len(buf)].openTime >= candleStick.openTime
  THEN [buf |-> buf, ok |-> FALSE]
  ELSE LET pushed == Append(buf, candleStick)
       IN [buf |-> IF Len(pushed) > MAX_CANDLE_STICKS_LENGTH
                   THEN Pop(pushed) ELSE pushed,
           ok |-> TRUE]

\* addCandleStick: the buffer afterwards and the value returned.
addCandleStick(buf, candleStick) ==
  IF Len(buf) = 0
  THEN [buf |-> Append(buf, candleStick), ok |-> TRUE]
  ELSE IF buf[Len(buf)].openTime >= candleStick.openTime
  THEN [buf |-> buf, ok |-> FALSE]
  ELSE LET pushed == Append(buf, candleStick)
       IN [buf |-> IF Len(pushed) > MAX_CANDLE_STICKS_LENGTH
                   THEN Shift(pushed) ELSE pushed,
           ok |-> TRUE]

\* Variant of seedCandleSticks: the first seed keeps the final bar.
seedCandleSticks_KeepsLast(buf, data) ==
  LET candleSticksAPI == candleStickFromAPIData(data)
  IN IF Len(buf) = 0
     THEN candleSticksAPI
     ELSE LET firstCandleStick == buf[1]
              newer(candle) == candle.openTime > firstCandleStick.openTime
          IN SelectSeq(candleSticksAPI, newer) \o buf

\* Variant of seedCandleSticks: the first seed drops the oldest bar.
seedCandleSticks_DropsFirst(buf, data) ==
  LET candleSticksAPI == candleStickFromAPIData(data)
  IN IF Len(buf) = 0
     THEN Shift(candleSticksAPI)
     ELSE LET firstCandleStick == buf[1]
              newer(candle) == candle.openTime > firstCandleStick.openTime
          IN SelectSeq(candleSticksAPI, newer) \o buf

\* Variant of seedCandleSticks: the merge also takes the bar equal to the head.
seedCandleSticks_MergesEqual(buf, data) ==
  LET candleSticksAPI == candleStickFromAPIData(data)
  IN IF Len(buf) = 0
     THEN Pop(candleSticksAPI)
     ELSE LET firstCandleStick == buf[1]
              newer(candle) == candle.openTime >= firstCandleStick.openTime
          IN SelectSeq(candleSticksAPI, newer) \o buf

\* The body of initFirstCandleSticks after the request has resolved.
seedCandleSticks(buf, data) ==
  LET candleSticksAPI == candleStickFromAPIData(data)
  IN IF Len(buf) = 0
     THEN Pop(candleSticksAPI)
     ELSE LET firstCandleStick == buf[1]
              newer(candle) == candle.openTime > firstCandleStick.openTime
          IN SelectSeq(candleSticksAPI, newer) \o buf

----------------------------------------------------------------------------
(* src/rsi.ts: handlers *)

\* ws.on("open")
WsOpen ==
  /\ pc # "Exited"
  /\ wsState = "connecting"
  /\ wsState' = "open"
  /\ reconnectAttempts' = 0
  /\ UNCHANGED <<candleSticks, fetchState, reconnecting, lastAdd, lenBefore,
                 scenario>>
  /\ UNCHANGED <<priceVars, tradeVars, supVars, mainVars>>

\* ws.on("message") with a closed kline: addCandleStick, reconnect() when it
\* returns false.
CandleClose(message) ==
  /\ pc # "Exited"
  /\ wsState = "open"
  /\ "k" \in DOMAIN message
  /\ message.k.x
  /\ LET candle == candleSticksFromWSData(message)
         r == addCandleStick(candleSticks, candle)
     IN /\ candleSticks' = r.buf
        /\ lastAdd' = IF r.ok THEN "accepted" ELSE "rejected"
        /\ lenBefore' = Len(candleSticks)
        /\ IF ~r.ok /\ ~reconnecting
           THEN /\ reconnecting' = TRUE
                /\ reconnectAttempts' = reconnectAttempts + 1
           ELSE UNCHANGED <<reconnecting, reconnectAttempts>>
        /\ scenario' = IF candle.openTime = 6 /\ scenario \in {1, 2}
                       THEN scenario + 1 ELSE 0
  /\ UNCHANGED <<fetchState, wsState>>
  /\ UNCHANGED <<priceVars, tradeVars, supVars, mainVars>>

\* ws.on("message") with anything else: answered or ignored.
OtherMessage(message) ==
  /\ pc # "Exited"
  /\ wsState = "open"
  /\ ~("k" \in DOMAIN message /\ message.k.x)
  /\ UNCHANGED vars

\* initFirstCandleSticks: the request resolves.
FetchComplete(data) ==
  /\ pc # "Exited"
  /\ fetchState = "pending"
  /\ fetchState' = "done"
  /\ candleSticks' = seedCandleSticks(candleSticks, data)
  /\ lastAdd' = IF Len(candleSticks) = 0 THEN "seedFirst" ELSE "seedMerge"
  /\ lenBefore' = Len(candleSticks)
  /\ scenario' = IF Len(candleSticks) = 0
                    /\ [i \in 1..Len(data) |-> data[i][1]] = <<1, 2, 3, 4, 5>>
                 THEN 1 ELSE 0
  /\ UNCHANGED <<wsState, reconnecting, reconnectAttempts>>
  /\ UNCHANGED <<priceVars, tradeVars, supVars, mainVars>>

\* initFirstCandleSticks: the request rejects; the catch block only logs.
FetchFail ==
  /\ pc # "Exited"
  /\ fetchState = "pending"
  /\ fetchState' = "failed"
  /\ UNCHANGED <<candleSticks, wsState, reconnecting, reconnectAttempts,
                 lastAdd, lenBefore, scenario>>
  /\ UNCHANGED <<priceVars, tradeVars, supVars, mainVars>>

----------------------------------------------------------------------------
(* src/rsi.ts: the price stream *)

Pair == "SOLUSDC"

\* The prices the ticker delivers, in quote atoms per base unit.
Prices == {5, 20, 100, 200}

\* One ticker message: an array with at most one entry [s: symbol, c: last
\* price] for each symbol.
TickerEntries ==
  { [s |-> Pair, c |-> p] : p \in Prices } \cup { [s |-> "BTCUSDT", c |-> 5] }
TickerMessages ==
  { <<>> } \cup { <<e>> : e \in TickerEntries }
           \cup { m \in { <<e1, e2>> : e1 \in TickerEntries,
                                        e2 \in TickerEntries } :
                    m[1].s # m[2].s }

\* Variant of applyTicker: the symbol of the entry is not compared.
RECURSIVE applyTicker_AnySymbol(_, _)
applyTicker_AnySymbol(price, messages) ==
  IF messages = <<>> THEN price
  ELSE applyTicker_AnySymbol(Head(messages).c, Tail(messages))

\* messages.forEach(...): the last entry of the pair wins.
RECURSIVE applyTicker(_, _)
applyTicker(price, messages) ==
  IF messages = <<>> THEN price
  ELSE applyTicker(IF Head(messages).s = Pair THEN Head(messages).c ELSE price,
                   Tail(messages))

\* price socket: ws.on("open")
PriceWsOpen ==
  /\ pc # "Exited"
  /\ priceWsState = "connecting"
  /\ priceWsState' = "open"
  /\ UNCHANGED <<priceStream, feedVars, tradeVars, supVars, mainVars>>

\* Variant of PriceMessage: the price sampled by the cycle follows the tick.
PriceMessage_MovesSample(messages) ==
  /\ pc # "Exited"
  /\ priceWsState = "open"
  /\ priceStream' = applyTicker(priceStream, messages)
  /\ currentPrice' = IF currentPrice = 0 THEN 0 ELSE priceStream'
  /\ UNCHANGED <<priceWsState, pc, sideway, volume, previousOrderCount,
                 venueOrders, marketOrders, snapshot, side, priceInTicks,
                 calls, faulted, balances, wraps, placement, feedVars,
                 supVars, mainVars>>

\* price socket: ws.on("message")
PriceMessage(messages) ==
  /\ pc # "Exited"
  /\ priceWsState = "open"
  /\ priceStream' = applyTicker(priceStream, messages)
  /\ UNCHANGED <<priceWsState, feedVars, tradeVars, supVars, mainVars>>

----------------------------------------------------------------------------
(* src/rsi.ts: the indicator snapshot *)

\* The periods of calculateRSI / calculateIndicators (14, 45 and 9 in the
\* code), scaled with the capacity.
RSI_PERIOD == 2
WMA_PERIOD == 3
EMA_PERIOD == 2

\* The sentinel of IndicatorSnapshot; the indicator values lie in 0..100.
NaN == -1
isNaN(x) == x = NaN

\* Values the indicator library returns, one for every branch of the policy.
RsiValues == {10, 30, 50, 70, 80}
WmaValues == {40, 60}
EmaValues == {40, 60}

\* Variant of calculateRSI: a buffer of exactly the period is also refused.
calculateRSI_OffByOne(buf) ==
  IF Len(buf) <= RSI_PERIOD
  THEN { [threw |-> TRUE, rsi |-> NaN, rsiLength |-> 0] }
  ELSE { [threw |-> FALSE, rsi |-> r, rsiLength |-> Len(buf) + 1 - RSI_PERIOD] :
           r \in RsiValues }

\* calculateRSI: it throws on fewer candles than the period; otherwise the
\* library gives one value for each of the closes and the live price after
\* the first `period` of them, and the last one is the RSI.
calculateRSI(buf) ==
  IF Len(buf) < RSI_PERIOD
  THEN { [threw |-> TRUE, rsi |-> NaN, rsiLength |-> 0] }
  ELSE { [threw |-> FALSE, rsi |-> r, rsiLength |-> Len(buf) + 1 - RSI_PERIOD] :
           r \in RsiValues }

\* Variant of calculateIndicators: the catch block blanks the RSI alone.
calculateIndicators_PartialSentinel(buf) ==
  UNION { IF o.threw
          THEN { [rsi |-> NaN, wma |-> w, ema |-> e] :
                   w \in WmaValues, e \in EmaValues }
          ELSE { [rsi |-> o.rsi, wma |-> w, ema |-> e] :
                   w \in IF o.rsiLength >= WMA_PERIOD THEN WmaValues ELSE {NaN},
                   e \in IF o.rsiLength >= EMA_PERIOD THEN EmaValues ELSE {NaN} } :
          o \in calculateRSI(buf) }

\* Variant of calculateIndicators: the EMA is given only when the WMA is.
calculateIndicators_SharedWindow(buf) ==
  UNION { IF o.threw
          THEN { [rsi |-> NaN, wma |-> NaN, ema |-> NaN] }
          ELSE { [rsi |-> o.rsi, wma |-> w, ema |-> e] :
                   w \in IF o.rsiLength >= WMA_PERIOD THEN WmaValues
                         ELSE {NaN},
                   e \in IF o.rsiLength >= WMA_PERIOD THEN EmaValues
                         ELSE {NaN} } :
          o \in calculateRSI(buf) }

\* calculateIndicators: the snapshots it can return for a buffer.  Which
\* fields are the sentinel follows the code; the numbers themselves are the
\* library's.  What calculateRSI throws is caught and answered with the
\* sentinel in every field.
calculateIndicators(buf) ==
  UNION { IF o.threw
          THEN { [rsi |-> NaN, wma |-> NaN, ema |-> NaN] }
          ELSE { [rsi |-> o.rsi, wma |-> w, ema |-> e] :
                   w \in IF o.rsiLength >= WMA_PERIOD THEN WmaValues ELSE {NaN},
                   e \in IF o.rsiLength >= EMA_PERIOD THEN EmaValues ELSE {NaN} } :
          o \in calculateRSI(buf) }

NoSnapshot == [rsi |-> NaN, wma |-> NaN, ema |-> NaN]

----------------------------------------------------------------------------
(* src/run.ts: the policy and the sizing of trade() *)

WMAlimitBuy == 45
WMAlimitSell == 55

\* Comparisons and Math.min / Math.max of JavaScript numbers: with a NaN
\* operand a comparison is false and min / max are NaN.
JsLt(a, b) == ~isNaN(a) /\ ~isNaN(b) /\ a < b
JsGt(a, b) == ~isNaN(a) /\ ~isNaN(b) /\ a > b
JsLe(a, b) == ~isNaN(a) /\ ~isNaN(b) /\ a <= b
JsGe(a, b) == ~isNaN(a) /\ ~isNaN(b) /\ a >= b
JsMin(a, b) == IF isNaN(a) \/ isNaN(b) THEN NaN ELSE IF a < b THEN a ELSE b
JsMax(a, b) == IF isNaN(a) \/ isNaN(b) THEN NaN ELSE IF a > b THEN a ELSE b

\* Variant of IndicatorsInvalid: only the RSI is tested.
IndicatorsInvalid_RsiOnly(snap) == isNaN(snap.rsi)

\* run.ts:126
IndicatorsInvalid(snap) == isNaN(snap.rsi) \/ isNaN(snap.wma) \/ isNaN(snap.ema)

\* Variant of Decide: the range of the range-bound mode excludes its ends.
Decide_ExclusiveRange(rsi, wma45, ema9, sw) ==
  IF JsGt(rsi, 75) THEN "Ask"
  ELSE IF JsLt(rsi, 25) THEN "Bid"
  ELSE IF sw
       THEN IF JsGt(rsi, JsMin(wma45, ema9)) /\ JsLt(rsi, JsMax(wma45, ema9))
            THEN IF JsLt(wma45, WMAlimitBuy) THEN "Bid" ELSE "none"
            ELSE IF JsGt(rsi, JsMax(wma45, ema9)) /\ JsGt(wma45, WMAlimitSell)
                 THEN "Ask" ELSE "none"
       ELSE IF JsLt(wma45, WMAlimitBuy) /\ JsLt(rsi, wma45) THEN "Bid"
            ELSE IF JsGt(wma45, WMAlimitSell) /\ JsGt(rsi, wma45) THEN "Ask"
                 ELSE "none"

\* Variant of Decide: the trending mode compares the RSI with the EMA.
Decide_TrendingUsesEma(rsi, wma45, ema9, sw) ==
  IF JsGt(rsi, 75) THEN "Ask"
  ELSE IF JsLt(rsi, 25) THEN "Bid"
  ELSE IF sw
       THEN IF JsGe(rsi, JsMin(wma45, ema9)) /\ JsLe(rsi, JsMax(wma45, ema9))
            THEN IF JsLt(wma45, WMAlimitBuy) THEN "Bid" ELSE "none"
            ELSE IF JsGt(rsi, JsMax(wma45, ema9)) /\ JsGt(wma45, WMAlimitSell)
                 THEN "Ask" ELSE "none"
       ELSE IF JsLt(wma45, WMAlimitBuy) /\ JsLt(rsi, ema9) THEN "Bid"
            ELSE IF JsGt(wma45, WMAlimitSell) /\ JsGt(rsi, ema9) THEN "Ask"
                 ELSE "none"

\* run.ts:140-215: the side to trade, or "none".
Decide(rsi, wma45, ema9, sw) ==
  IF JsGt(rsi, 75) THEN "Ask"
  ELSE IF JsLt(rsi, 25) THEN "Bid"
  ELSE IF sw
       THEN IF JsGe(rsi, JsMin(wma45, ema9)) /\ JsLe(rsi, JsMax(wma45, ema9))
            THEN IF JsLt(wma45, WMAlimitBuy) THEN "Bid" ELSE "none"
            ELSE IF JsGt(rsi, JsMax(wma45, ema9)) /\ JsGt(wma45, WMAlimitSell)
                 THEN "Ask" ELSE "none"
       ELSE IF JsLt(wma45, WMAlimitBuy) /\ JsLt(rsi, wma45) THEN "Bid"
            ELSE IF JsGt(wma45, WMAlimitSell) /\ JsGt(rsi, wma45) THEN "Ask"
                 ELSE "none"

\* The market header: base lots in one base unit and quote atoms in one
\* quote lot.  Volumes and balances of the quote asset are in quote atoms,
\* those of the base asset in base lots.
BaseLotsPerUnit == 10
QuoteLotSize == 4

\* The value of x / 0 and of everything computed from it.
Infinity == 1000000

\* Math.round(n / d)
RoundDiv(n, d) == (2 * n + d) \div (2 * d)

\* run.ts:222-229
numBaseLots(vol, price) ==
  IF price = 0 THEN Infinity ELSE RoundDiv(vol * BaseLotsPerUnit, price)

\* run.ts:226-230
numQuoteLots(vol) == RoundDiv(vol, QuoteLotSize)

\* The unit of calculateMinimumOrderVolume: 1 / MinimumScale quote atoms.
MinimumScale == 100 * BaseLotsPerUnit

\* Variant of calculateMinimumOrderVolume: no safety margin.
calculateMinimumOrderVolume_NoMargin(price) == price * 100

\* functions.ts:939  one base lot at the price, plus 5%.
calculateMinimumOrderVolume(price) == price * 105

\* The trade volumes configured, and the balances the venue reports.
Volumes == {1, 10}
BaseBalances == {5, 20}
QuoteBalances == {8, 12}
SolBalances == {0, 20}

\* The balances of an iteration that has not read them.
NoBalances == [sol |-> 0, base |-> 0, quote |-> 0, read |-> FALSE]

----------------------------------------------------------------------------
(* src/run.ts: trade() *)

Called(name) == \E i \in 1..Len(calls) : calls[i] = name

Traders == 1..MaxTraders

\* Variant of awaitTrade: trade() is started for every key without waiting.
awaitTrade_AllAtOnce(ls, key) == [t \in Traders |-> "running"]

\* run.ts:434  `await trade(...)` for the key the for loop is at.
awaitTrade(ls, key) == [ls EXCEPT ![key] = "running"]

\* trade() of the key has rejected, or process.exit has ended it; trade()
\* has no return, so the for loop of main() never reaches the next key.
LoopFollows ==
  loops' = [loops EXCEPT ![keyIndex] =
              IF pc' \in {"Crashed", "Exited"} THEN "ended" ELSE @]

\* config.percentage = 0.5, in tenths of a percent.
percentage == 5

\* Variant of limitPrice: the offset is subtracted for a sell and added for
\* a buy.
limitPrice_SwappedOffset(price, sd) ==
  IF sd = "Ask" THEN price * (1000 - percentage)
  ELSE IF sd = "Bid" THEN price * (1000 + percentage)
  ELSE 0

\* run.ts:143-150, 161-205: the price handed to floatPriceToTicks for the
\* side, currentPrice * (1 +- percentage / 100), in thousandths of the
\* price unit.
limitPrice(price, sd) ==
  IF sd = "Ask" THEN price * (1000 + percentage)
  ELSE IF sd = "Bid" THEN price * (1000 - percentage)
  ELSE 0

\* run.ts:240-256: where the iteration goes after the sizing.
SizingOutcome(vol, price) ==
  IF vol * MinimumScale < calculateMinimumOrderVolume(price)
  THEN "SleepExit"
  ELSE IF numBaseLots(vol, price) = 0 \/ numQuoteLots(vol) = 0
  THEN "SleepCooldown"
  ELSE "FundCheck"

\* Variant of EvaluateOutcome: no action sleeps the short interval.
EvaluateOutcome_NoActionShortSleep(snap, sw, vol, price) ==
  IF IndicatorsInvalid(snap) THEN "SleepShort"
  ELSE IF Decide(snap.rsi, snap.wma, snap.ema, sw) = "none"
  THEN "SleepShort"
  ELSE SizingOutcome(vol, price)

\* run.ts:126-256: where the iteration goes after the indicators, the policy
\* and the sizing.
EvaluateOutcome(snap, sw, vol, price) ==
  IF IndicatorsInvalid(snap) THEN "SleepShort"
  ELSE IF Decide(snap.rsi, snap.wma, snap.ema, sw) = "none"
  THEN "SleepCooldown"
  ELSE SizingOutcome(vol, price)

\* main(): the 5 s wait is over and trade() is entered with the configured
\* mode and volume.
TradeStart ==
  /\ pc = "Startup"
  /\ pc' = "Reconcile"
  /\ sideway' \in BOOLEAN
  /\ volume' \in Volumes
  /\ previousOrderCount' = 0
  /\ loops' = awaitTrade(loops, keyIndex)
  /\ UNCHANGED <<venueOrders, marketOrders, snapshot, side, currentPrice,
                 priceInTicks, calls, faulted, balances, wraps, placement,
                 feedVars, priceVars, supVars, keyIndex>>

\* run.ts:46-112: the open orders are read from the loaded market state and
\* cancelled when their number is positive and differs from the previous one.
Reconcile ==
  /\ pc = "Reconcile"
  /\ pc' = "Evaluate"
  /\ snapshot' = NoSnapshot
  /\ side' = "none"
  /\ currentPrice' = 0
  /\ priceInTicks' = 0
  /\ balances' = NoBalances
  /\ wraps' = <<>>
  /\ placement' = "none"
  /\ \/ \* getCurrentOrders throws: the outer catch logs
        /\ calls' = <<"getCurrentOrders", "catch">>
        /\ faulted' = TRUE
        /\ UNCHANGED <<previousOrderCount, venueOrders, marketOrders>>
     \/ \* nothing to cancel, or the count is the previous one
        /\ ~(marketOrders > 0 /\ marketOrders # previousOrderCount)
        /\ calls' = <<"getCurrentOrders">>
        /\ previousOrderCount' = marketOrders
        /\ UNCHANGED <<venueOrders, marketOrders, faulted>>
     \/ \* the cancel is confirmed, the market state reloaded
        /\ marketOrders > 0 /\ marketOrders # previousOrderCount
        /\ calls' = <<"getCurrentOrders", "cancelAllOrders",
                      "reloadFromNetwork", "getCurrentOrders">>
        /\ venueOrders' = 0
        /\ marketOrders' = 0
        /\ previousOrderCount' = marketOrders
        /\ UNCHANGED faulted
     \/ \* the cancel transaction fails: the inner catch logs
        /\ marketOrders > 0 /\ marketOrders # previousOrderCount
        /\ calls' = <<"getCurrentOrders", "cancelAllOrders">>
        /\ previousOrderCount' = marketOrders
        /\ faulted' = TRUE
        /\ UNCHANGED <<venueOrders, marketOrders>>
     \/ \* the cancel transaction fails with a SendTransactionError and
        \* error.getLogs throws inside the inner catch: the outer catch logs
        \* and line 109 is not reached
        /\ marketOrders > 0 /\ marketOrders # previousOrderCount
        /\ calls' = <<"getCurrentOrders", "cancelAllOrders", "getLogs",
                      "catch">>
        /\ faulted' = TRUE
        /\ UNCHANGED <<previousOrderCount, venueOrders, marketOrders>>
     \/ \* the cancel is confirmed but the reload fails: the inner catch logs
        /\ marketOrders > 0 /\ marketOrders # previousOrderCount
        /\ calls' = <<"getCurrentOrders", "cancelAllOrders",
                      "reloadFromNetwork">>
        /\ venueOrders' = 0
        /\ previousOrderCount' = marketOrders
        /\ faulted' = TRUE
        /\ UNCHANGED marketOrders
  /\ UNCHANGED <<sideway, volume, feedVars, priceVars, supVars, keyIndex>>
  /\ LoopFollows

\* run.ts:113-256: the indicators, the policy, the sizing.  Nothing in these
\* lines suspends for longer than a microtask, so no stream handler runs
\* in between.
Evaluate ==
  /\ pc = "Evaluate"
  /\ \E snap \in calculateIndicators(candleSticks) :
       /\ snapshot' = snap
       /\ pc' = EvaluateOutcome(snap, sideway, volume, priceStream)
       /\ IF IndicatorsInvalid(snap)
          THEN /\ calls' = Append(calls, "calculateIndicators")
               /\ UNCHANGED <<side, currentPrice, priceInTicks>>
          ELSE LET decision == Decide(snap.rsi, snap.wma, snap.ema, sideway)
               IN /\ currentPrice' = priceStream
                  /\ side' = decision
                  /\ priceInTicks' = limitPrice(priceStream, decision)
                  /\ calls' = IF decision = "none"
                              THEN Append(calls, "calculateIndicators")
                              ELSE calls \o <<"calculateIndicators", "size">>
  /\ UNCHANGED <<sideway, volume, previousOrderCount, venueOrders,
                 marketOrders, faulted, balances, wraps, placement, feedVars,
                 priceVars, supVars, keyIndex>>
  /\ LoopFollows

\* Variant of InsufficientQuote: the balance is compared with the number of
\* quote lots, not with their value.
InsufficientQuote_ComparesLots(quoteWalletBalance, lots) ==
  quoteWalletBalance < lots

\* run.ts:277-289: the quote balance does not cover the value of the lots.
InsufficientQuote(quoteWalletBalance, lots) ==
  quoteWalletBalance < lots * QuoteLotSize

\* run.ts:301-304: the base amount a sell of the lots needs, and
\* functions.ts:791-794: the amount placeOrderWithSol transfers and syncs
\* into the wrapped account in the transaction of the order.
requiredBaseBalance(lots) == lots

\* Variant of wrapTokenOutcomes: what wrapToken throws leaves trade().
wrapTokenOutcomes_Propagates ==
  { [pc |-> "Submit", threw |-> FALSE], [pc |-> "Crashed", threw |-> TRUE] }

\* run.ts:320-336: wrapToken resolves and the order is placed, or it throws
\* and the catch logs, sleeps timeCancel and continues.
wrapTokenOutcomes ==
  { [pc |-> "Submit", threw |-> FALSE],
    [pc |-> "SleepCooldown", threw |-> TRUE] }

\* run.ts:259-343: the balances are read; a buy needs the quote balance, a
\* sell the base balance or a wrap of the missing amount.
FundCheck ==
  /\ pc = "FundCheck"
  /\ \/ \* checkUserBalance throws: nothing catches it, trade() rejects
        /\ pc' = "Crashed"
        /\ calls' = Append(calls, "checkUserBalance")
        /\ faulted' = TRUE
        /\ UNCHANGED <<balances, wraps>>
     \/ \E solBalance \in SolBalances, baseWalletBalance \in BaseBalances,
           quoteWalletBalance \in QuoteBalances :
          LET required == requiredBaseBalance(numBaseLots(volume, currentPrice))
              amountToWrap == required - baseWalletBalance
          IN /\ balances' = [sol |-> solBalance, base |-> baseWalletBalance,
                             quote |-> quoteWalletBalance, read |-> TRUE]
             /\ IF side = "Bid"
                THEN /\ calls' = Append(calls, "checkUserBalance")
                     /\ pc' = IF InsufficientQuote(quoteWalletBalance,
                                                   numQuoteLots(volume))
                              THEN "SleepCooldown" ELSE "Submit"
                     /\ UNCHANGED <<faulted, wraps>>
                ELSE IF baseWalletBalance < required
                THEN IF solBalance >= amountToWrap
                     THEN /\ wraps' = Append(wraps, amountToWrap)
                          /\ \E o \in wrapTokenOutcomes :
                               /\ pc' = o.pc
                               /\ faulted' = (faulted \/ o.threw)
                               /\ calls' =
                                    calls \o <<"checkUserBalance", "wrapToken">>
                                          \o IF o.threw THEN <<"catch">>
                                             ELSE <<>>
                     ELSE /\ calls' = Append(calls, "checkUserBalance")
                          /\ pc' = "SleepCooldown"
                          /\ UNCHANGED <<faulted, wraps>>
                ELSE /\ calls' = Append(calls, "checkUserBalance")
                     /\ pc' = "Submit"
                     /\ UNCHANGED <<faulted, wraps>>
  /\ UNCHANGED <<sideway, volume, previousOrderCount, venueOrders,
                 marketOrders, snapshot, side, currentPrice, priceInTicks,
                 placement, feedVars, priceVars, supVars, keyIndex>>
  /\ LoopFollows

\* run.ts:345-383: the order is placed, the market state reloaded and the
\* open orders read again.  A sell goes through placeOrderWithSol, whose
\* transaction wraps the amount of the whole order before the order.
Submit ==
  /\ pc = "Submit"
  /\ wraps' = IF side = "Ask"
              THEN Append(wraps, requiredBaseBalance(
                                   numBaseLots(volume, currentPrice)))
              ELSE wraps
  /\ \/ \* the placement is confirmed
        /\ venueOrders < MaxOrders
        /\ venueOrders' = venueOrders + 1
        /\ marketOrders' = venueOrders + 1
        /\ placement' = "confirmed"
        /\ calls' = calls \o <<"placeOrder", "reloadFromNetwork",
                               "getCurrentOrders">>
        /\ pc' = "SleepSubmitted"
        /\ UNCHANGED faulted
     \/ \* the placement throws: the catch logs, after error.getLogs when the
        \* error is a SendTransactionError
        /\ \E diagnostics \in {<<>>, <<"getLogs">>} :
             calls' = calls \o <<"placeOrder">> \o diagnostics
                            \o <<"reloadFromNetwork", "getCurrentOrders">>
        /\ marketOrders' = venueOrders
        /\ placement' = "failed"
        /\ pc' = "SleepSubmitted"
        /\ faulted' = TRUE
        /\ UNCHANGED venueOrders
     \/ \* the placement throws a SendTransactionError and error.getLogs
        \* throws inside the catch: trade() rejects
        /\ calls' = calls \o <<"placeOrder", "getLogs">>
        /\ placement' = "failed"
        /\ pc' = "Crashed"
        /\ faulted' = TRUE
        /\ UNCHANGED <<venueOrders, marketOrders>>
     \/ \* the reload or the read after it throws: trade() rejects
        /\ \E placed \in {0, 1} :
             /\ venueOrders + placed <= MaxOrders
             /\ venueOrders' = venueOrders + placed
             /\ placement' = IF placed = 1 THEN "confirmed" ELSE "failed"
        /\ calls' = calls \o <<"placeOrder", "reloadFromNetwork">>
        /\ pc' = "Crashed"
        /\ faulted' = TRUE
        /\ UNCHANGED marketOrders
  /\ UNCHANGED <<sideway, volume, previousOrderCount, snapshot, side,
                 currentPrice, priceInTicks, balances, feedVars, priceVars,
                 supVars, keyIndex>>
  /\ LoopFollows

\* run.ts:130-131: the 30 s wait after an invalid snapshot is over.
WakeShort ==
  /\ pc = "SleepShort"
  /\ pc' = "Reconcile"
  /\ UNCHANGED <<sideway, volume, previousOrderCount, venueOrders,
                 marketOrders, snapshot, side, currentPrice, priceInTicks,
                 calls, faulted, balances, wraps, placement, feedVars,
                 priceVars, supVars, keyIndex>>
  /\ LoopFollows

\* The timeCancel wait before a `continue` is over.
WakeCooldown ==
  /\ pc = "SleepCooldown"
  /\ pc' = "Reconcile"
  /\ UNCHANGED <<sideway, volume, previousOrderCount, venueOrders,
                 marketOrders, snapshot, side, currentPrice, priceInTicks,
                 calls, faulted, balances, wraps, placement, feedVars,
                 priceVars, supVars, keyIndex>>
  /\ LoopFollows

\* run.ts:246-248: the timeCancel wait is over, process.exit(0).
WakeExit ==
  /\ pc = "SleepExit"
  /\ pc' = "Exited"
  /\ UNCHANGED <<sideway, volume, previousOrderCount, venueOrders,
                 marketOrders, snapshot, side, currentPrice, priceInTicks,
                 calls, faulted, balances, wraps, placement, feedVars,
                 priceVars, supVars, keyIndex>>
  /\ LoopFollows

\* run.ts:386-387: the timeCancel wait after the placement is over and the
\* market state is reloaded.
WakeSubmitted ==
  /\ pc = "SleepSubmitted"
  /\ \/ /\ pc' = "Reconcile"
        /\ marketOrders' = venueOrders
        /\ calls' = Append(calls, "reloadFromNetwork")
        /\ UNCHANGED faulted
     \/ \* the reload throws: trade() rejects
        /\ pc' = "Crashed"
        /\ calls' = Append(calls, "reloadFromNetwork")
        /\ faulted' = TRUE
        /\ UNCHANGED marketOrders
  /\ UNCHANGED <<sideway, volume, previousOrderCount, venueOrders, snapshot,
                 side, currentPrice, priceInTicks, balances, wraps, placement,
                 feedVars, priceVars, supVars, keyIndex>>
  /\ LoopFollows

----------------------------------------------------------------------------
(* src/rsi.ts: initCandleStickWS, the supervisor of the candle stream.
   initPriceWS (rsi.ts:125-188) has the same list, closure and handlers,
   without the reconnect() of the message handler. *)

\* rsi.ts:60-66, 85: the socket, the closure variables and the ping interval
\* of one call of initCandleStickWS.
NewSocket ==
  [readyState |-> "CONNECTING", reconnecting |-> FALSE,
   reconnectAttempts |-> 0, pingInterval |-> TRUE]

Sockets == 1..Len(sockets)

\* The closed candles the supervised stream delivers.
WsTimes == {1, 2}
WsMessages ==
  { m \in StreamMessages : "k" \in DOMAIN m => m.k.t \in WsTimes }

\* rsi.ts:75  the delay of the timer, in ms.
backoffDelay(attempts) ==
  IF 1000 * attempts < 30000 THEN 1000 * attempts ELSE 30000

\* Variant of reconnect: the attempt counter is not incremented.
reconnect_KeepsAttempts(socks, i) ==
  IF socks[i].reconnecting THEN socks
  ELSE [socks EXCEPT ![i].reconnecting = TRUE]

\* Variant of reconnect: the flag is not tested.
reconnect_NoGuard(socks, i) ==
  [socks EXCEPT ![i].reconnecting = TRUE,
                ![i].reconnectAttempts = @ + 1]

\* rsi.ts:68-76  reconnect() of socket i up to the setTimeout: the closures
\* afterwards.  The pending timer is the flag `reconnecting`.
reconnect(socks, i) ==
  IF socks[i].reconnecting THEN socks
  ELSE [socks EXCEPT ![i].reconnecting = TRUE,
                     ![i].reconnectAttempts = @ + 1]

\* The delays scheduled once reconnect() of socket i has run.
delaysAfterReconnect(i) ==
  IF sockets[i].reconnecting THEN delays
  ELSE Append(delays, backoffDelay(sockets[i].reconnectAttempts + 1))

\* rsi.ts:52-64  initCandleStickWS: the open sockets of the list are closed,
\* the list is emptied and a new socket is created and pushed.
initCandleStickWS(socks, listed) ==
  Append([j \in 1..Len(socks) |->
            IF j \in listed /\ socks[j].readyState = "OPEN"
            THEN [socks[j] EXCEPT !.readyState = "CLOSING"]
            ELSE socks[j]],
         NewSocket)

\* ws.on("open") of socket i
SupOpen(i) ==
  /\ ~uncaught
  /\ sockets[i].readyState = "CONNECTING"
  /\ sockets' = [sockets EXCEPT ![i].readyState = "OPEN",
                                ![i].reconnectAttempts = 0]
  /\ delays' = <<>>
  /\ UNCHANGED <<activeCandleStickWebSockets, strayFrom, strayProbe,
                 uncaught>>
  /\ UNCHANGED <<feedVars, priceVars, tradeVars, mainVars>>

\* ws.on("message") of socket i with a message that parses
SupMessage(i, message) ==
  /\ ~uncaught
  /\ sockets[i].readyState = "OPEN"
  /\ IF "k" \in DOMAIN message /\ message.k.x
     THEN LET candle == candleSticksFromWSData(message)
              r == addCandleStick(candleSticks, candle)
          IN /\ candleSticks' = r.buf
             /\ lastAdd' = IF r.ok THEN "accepted" ELSE "rejected"
             /\ lenBefore' = Len(candleSticks)
             /\ scenario' = 0
             /\ sockets' = IF r.ok THEN sockets ELSE reconnect(sockets, i)
             /\ delays' = IF r.ok THEN delays ELSE delaysAfterReconnect(i)
             /\ strayFrom' = IF i \in activeCandleStickWebSockets
                             THEN strayFrom ELSE i
     ELSE UNCHANGED <<candleSticks, lastAdd, lenBefore, scenario, sockets,
                      delays, strayFrom>>
  /\ UNCHANGED <<activeCandleStickWebSockets, strayProbe, uncaught>>
  /\ UNCHANGED <<fetchState, wsState, reconnecting, reconnectAttempts>>
  /\ UNCHANGED <<priceVars, tradeVars, mainVars>>

\* ws.on("message") of socket i with data JSON.parse rejects, or that parses
\* to null: the handler throws and nothing catches the exception.
SupUnparseable(i) ==
  /\ ~uncaught
  /\ sockets[i].readyState = "OPEN"
  /\ uncaught' = TRUE
  /\ UNCHANGED <<sockets, activeCandleStickWebSockets, delays, strayFrom,
                 strayProbe>>
  /\ UNCHANGED <<feedVars, priceVars, tradeVars, mainVars>>

\* price socket: ws.on("message") with data JSON.parse rejects, or that
\* parses to something without forEach.
PriceUnparseable ==
  /\ ~uncaught
  /\ priceWsState = "open"
  /\ uncaught' = TRUE
  /\ UNCHANGED <<sockets, activeCandleStickWebSockets, delays, strayFrom,
                 strayProbe>>
  /\ UNCHANGED <<feedVars, priceVars, tradeVars, mainVars>>

\* ws.on("error") of socket i; the socket goes on to close.
SupError(i) ==
  /\ ~uncaught
  /\ sockets[i].readyState \in {"CONNECTING", "OPEN"}
  /\ sockets' = [reconnect(sockets, i) EXCEPT ![i].readyState = "CLOSING",
                                               ![i].pingInterval = FALSE]
  /\ delays' = delaysAfterReconnect(i)
  /\ UNCHANGED <<activeCandleStickWebSockets, strayFrom, strayProbe,
                 uncaught>>
  /\ UNCHANGED <<feedVars, priceVars, tradeVars, mainVars>>

\* ws.on("close") of socket i: the peer has dropped the connection, or the
\* close started by an error or by ws.close() is complete.
SupClose(i) ==
  /\ ~uncaught
  /\ sockets[i].readyState \in {"OPEN", "CLOSING"}
  /\ sockets' = [reconnect(sockets, i) EXCEPT ![i].readyState = "CLOSED",
                                               ![i].pingInterval = FALSE]
  /\ delays' = delaysAfterReconnect(i)
  /\ UNCHANGED <<activeCandleStickWebSockets, strayFrom, strayProbe,
                 uncaught>>
  /\ UNCHANGED <<feedVars, priceVars, tradeVars, mainVars>>

\* The timer of reconnect() of socket i fires: initCandleStickWS, then
\* reconnecting = false.
SupTimer(i) ==
  /\ ~uncaught
  /\ sockets[i].reconnecting
  /\ Len(sockets) < MaxSockets
  /\ sockets' = [initCandleStickWS(sockets, activeCandleStickWebSockets)
                   EXCEPT ![i].reconnecting = FALSE]
  /\ activeCandleStickWebSockets' = {Len(sockets) + 1}
  /\ UNCHANGED <<delays, strayFrom, strayProbe, uncaught>>
  /\ UNCHANGED <<feedVars, priceVars, tradeVars, mainVars>>

\* rsi.ts:78-85  the ping interval of socket i fires.
SupPing(i) ==
  /\ ~uncaught
  /\ sockets[i].pingInterval
  /\ strayProbe' = IF sockets[i].readyState = "OPEN"
                      /\ i \notin activeCandleStickWebSockets
                   THEN i ELSE strayProbe
  /\ UNCHANGED <<sockets, activeCandleStickWebSockets, delays, strayFrom,
                 uncaught>>
  /\ UNCHANGED <<feedVars, priceVars, tradeVars, mainVars>>

----------------------------------------------------------------------------
(* Specifications *)

\* main() has called initFirstCandleSticks and initCandleStickWS.
Init ==
  /\ candleSticks = <<>>
  /\ fetchState = "pending"
  /\ wsState = "connecting"
  /\ reconnecting = FALSE
  /\ reconnectAttempts = 0
  /\ lastAdd = "none"
  /\ lenBefore = 0
  /\ scenario = 0
  /\ priceWsState = "connecting"
  /\ priceStream = 0
  /\ pc = "Startup"
  /\ sideway = FALSE
  /\ volume = 0
  /\ previousOrderCount = 0
  /\ venueOrders = 0
  /\ marketOrders = 0
  /\ snapshot = NoSnapshot
  /\ side = "none"
  /\ currentPrice = 0
  /\ calls = <<>>
  /\ faulted = FALSE
  /\ balances = NoBalances
  /\ wraps = <<>>
  /\ placement = "none"
  /\ priceInTicks = 0
  /\ keyIndex = 1
  /\ loops = [t \in Traders |-> "idle"]
  /\ sockets = <<NewSocket>>
  /\ activeCandleStickWebSockets = {1}
  /\ delays = <<>>
  /\ strayFrom = 0
  /\ strayProbe = 0
  /\ uncaught = FALSE

\* The buffers a first seed leaves: the history 1..k without its last bar.
SeededBuffers ==
  { seedCandleSticks(<<>>, [i \in 1..k |-> KlineRow(i, 1)]) :
      k \in 0..MAX_CANDLE_STICKS_LENGTH }

\* trade() is entered after the history request has seeded the buffer.
InitTrade ==
  /\ candleSticks \in SeededBuffers
  /\ fetchState = "done"
  /\ wsState = "connecting"
  /\ reconnecting = FALSE
  /\ reconnectAttempts = 0
  /\ lastAdd = "seedFirst"
  /\ lenBefore = 0
  /\ scenario = 0
  /\ priceWsState = "connecting"
  /\ priceStream = 0
  /\ pc = "Startup"
  /\ sideway = FALSE
  /\ volume = 0
  /\ previousOrderCount = 0
  /\ venueOrders = 0
  /\ marketOrders = 0
  /\ snapshot = NoSnapshot
  /\ side = "none"
  /\ currentPrice = 0
  /\ calls = <<>>
  /\ faulted = FALSE
  /\ balances = NoBalances
  /\ wraps = <<>>
  /\ placement = "none"
  /\ priceInTicks = 0
  /\ keyIndex = 1
  /\ loops = [t \in Traders |-> "idle"]
  /\ sockets = <<NewSocket>>
  /\ activeCandleStickWebSockets = {1}
  /\ delays = <<>>
  /\ strayFrom = 0
  /\ strayProbe = 0
  /\ uncaught = FALSE

\* run.ts:393-430: the for loop of main() is at a key; the client, the
\* market state and the balances are read and the three streams started.
Bootstrap ==
  /\ pc = "Bootstrap"
  /\ pc' = "Startup"
  /\ fetchState' = "pending"
  /\ wsState' = "connecting"
  /\ priceWsState' = "connecting"
  /\ sockets' = <<NewSocket>>
  /\ activeCandleStickWebSockets' = {1}
  /\ UNCHANGED <<candleSticks, reconnecting, reconnectAttempts, lastAdd,
                 lenBefore, scenario, priceStream, sideway, volume,
                 previousOrderCount, venueOrders, marketOrders, snapshot,
                 side, currentPrice, priceInTicks, calls, faulted, balances,
                 wraps, placement, delays, strayFrom, strayProbe, uncaught,
                 mainVars>>

\* run.ts:399-414, 443-445: createPhoenixClient, getMarketState or
\* checkUserBalance throws.  main() has no try block: its promise rejects
\* and the catch of line 443 logs; the for loop is gone.
BootstrapFail ==
  /\ pc = "Bootstrap"
  /\ pc' = "BootFailed"
  /\ faulted' = TRUE
  /\ UNCHANGED <<sideway, volume, previousOrderCount, venueOrders,
                 marketOrders, snapshot, side, currentPrice, priceInTicks,
                 calls, balances, wraps, placement, feedVars, priceVars,
                 supVars, mainVars>>

\* The history the request of the first key returns.
MainHistories == { [i \in 1..MAX_CANDLE_STICKS_LENGTH |-> KlineRow(i, 1)] }

\* main() is entered: no stream is started yet, no loop is running.
InitMain ==
  /\ candleSticks = <<>>
  /\ fetchState = "none"
  /\ wsState = "none"
  /\ reconnecting = FALSE
  /\ reconnectAttempts = 0
  /\ lastAdd = "none"
  /\ lenBefore = 0
  /\ scenario = 0
  /\ priceWsState = "none"
  /\ priceStream = 0
  /\ pc = "Bootstrap"
  /\ sideway = FALSE
  /\ volume = 0
  /\ previousOrderCount = 0
  /\ venueOrders = 0
  /\ marketOrders = 0
  /\ snapshot = NoSnapshot
  /\ side = "none"
  /\ currentPrice = 0
  /\ calls = <<>>
  /\ faulted = FALSE
  /\ balances = NoBalances
  /\ wraps = <<>>
  /\ placement = "none"
  /\ priceInTicks = 0
  /\ keyIndex = 1
  /\ loops = [t \in Traders |-> "idle"]
  /\ sockets = <<>>
  /\ activeCandleStickWebSockets = {}
  /\ delays = <<>>
  /\ strayFrom = 0
  /\ strayProbe = 0
  /\ uncaught = FALSE

NextTrade ==
  \/ PriceWsOpen
  \/ \E messages \in TickerMessages : PriceMessage(messages)
  \/ TradeStart
  \/ Reconcile
  \/ Evaluate
  \/ FundCheck
  \/ Submit
  \/ WakeShort
  \/ WakeCooldown
  \/ WakeExit
  \/ WakeSubmitted

NextAppend ==
  \/ WsOpen
  \/ \E m \in StreamMessages : CandleClose(m)
  \/ \E m \in StreamMessages : OtherMessage(m)

NextFeed ==
  \/ WsOpen
  \/ \E m \in StreamMessages : CandleClose(m)
  \/ \E m \in StreamMessages : OtherMessage(m)
  \/ \E data \in Histories : FetchComplete(data)
  \/ FetchFail

\* The stream handlers alone: every sequence of appends.
SpecAppend == Init /\ [][NextAppend]_vars

\* The history seed interleaved with the stream handlers.
SpecFeed == Init /\ [][NextFeed]_vars

\* The trading cycle and the price stream over a seeded buffer.
SpecTrade == InitTrade /\ [][NextTrade]_vars

NextMain ==
  \/ Bootstrap
  \/ BootstrapFail
  \/ \E data \in MainHistories : FetchComplete(data)
  \/ NextTrade

SpecMain == InitMain /\ [][NextMain]_vars

\* The indicator values the policy is applied to: the thresholds 25 and 75,
\* the limits 45 and 55 and their neighbours.
PolicyValues == {24, 25, 26, 44, 45, 46, 54, 55, 56, 74, 75, 76}

\* A sentinel-free snapshot, a mode and a price at run.ts:136.
InitPolicy ==
  /\ candleSticks = <<>>
  /\ fetchState = "done"
  /\ wsState = "connecting"
  /\ reconnecting = FALSE
  /\ reconnectAttempts = 0
  /\ lastAdd = "none"
  /\ lenBefore = 0
  /\ scenario = 0
  /\ priceWsState = "open"
  /\ priceStream \in Prices \cup {0}
  /\ pc = "Evaluate"
  /\ sideway \in BOOLEAN
  /\ volume = 0
  /\ previousOrderCount = 0
  /\ venueOrders = 0
  /\ marketOrders = 0
  /\ snapshot \in [rsi : PolicyValues, wma : PolicyValues, ema : PolicyValues]
  /\ side = "none"
  /\ currentPrice = 0
  /\ calls = <<>>
  /\ faulted = FALSE
  /\ balances = NoBalances
  /\ wraps = <<>>
  /\ placement = "none"
  /\ priceInTicks = 0
  /\ keyIndex = 1
  /\ loops = [t \in Traders |-> IF t = 1 THEN "running" ELSE "idle"]
  /\ sockets = <<NewSocket>>
  /\ activeCandleStickWebSockets = {1}
  /\ delays = <<>>
  /\ strayFrom = 0
  /\ strayProbe = 0
  /\ uncaught = FALSE

\* run.ts:134-215: the policy is applied to the snapshot.
ApplyPolicy ==
  /\ pc = "Evaluate"
  /\ pc' = "Decided"
  /\ currentPrice' = priceStream
  /\ side' = Decide(snapshot.rsi, snapshot.wma, snapshot.ema, sideway)
  /\ priceInTicks' = limitPrice(priceStream, side')
  /\ UNCHANGED <<sideway, volume, previousOrderCount, venueOrders,
                 marketOrders, snapshot, calls, faulted, balances, wraps,
                 placement, feedVars, priceVars, supVars, mainVars>>

NextPolicy == ApplyPolicy

SpecPolicy == InitPolicy /\ [][NextPolicy]_vars

NextWs ==
  \/ \E i \in Sockets : SupOpen(i)
  \/ \E i \in Sockets : \E m \in WsMessages : SupMessage(i, m)
  \/ \E i \in Sockets : SupUnparseable(i)
  \/ \E i \in Sockets : SupError(i)
  \/ \E i \in Sockets : SupClose(i)
  \/ \E i \in Sockets : SupTimer(i)
  \/ \E i \in Sockets : SupPing(i)
  \/ PriceWsOpen
  \/ PriceUnparseable

\* The supervisor of the candle stream and the parsing of both streams.
SpecWs == Init /\ [][NextWs]_vars

\* setTimeout is never cleared (rsi.ts:72-75): a pending timer of reconnect()
\* fires as long as the process runs.
FairnessWs == \A i \in 1..MaxSockets : WF_vars(i \in Sockets /\ SupTimer(i))

SpecWsFair == Init /\ [][NextWs]_vars /\ FairnessWs

\* The history seed and the message handlers of the two streams.
NextStreams ==
  \/ \E i \in Sockets : SupOpen(i)
  \/ \E i \in Sockets : \E m \in WsMessages : SupMessage(i, m)
  \/ \E data \in MainHistories : FetchComplete(data)
  \/ PriceWsOpen
  \/ \E messages \in TickerMessages : PriceMessage(messages)

SpecStreams == Init /\ [][NextStreams]_vars

Next == NextFeed \/ NextMain \/ NextWs

Spec == Init /\ [][Next]_vars

----------------------------------------------------------------------------
(* Properties of the candle buffer *)

StrictlyIncreasing(ts) == \A i, j \in 1..Len(ts) : i < j => ts[i] < ts[j]

\* The candle a history row stands for, field by field.
RowCandle(row) ==
  [openTime |-> row[1], closeTime |-> row[7], openPrice |-> row[2],
   closePrice |-> row[5], highPrice |-> row[3], lowPrice |-> row[4]]

\* C2: an append on a non-empty buffer whose openTime is <= the tail's returns
\* false and leaves the buffer as it was; one whose openTime is greater
\* returns true and leaves the openTime sequence strictly increasing.
C2_AppendOrdering ==
  [][\A m \in KlineMessages :
       (CandleClose(m) /\ Len(candleSticks) > 0) =>
         /\ (m.k.t <= candleSticks[Len(candleSticks)].openTime =>
               lastAdd' = "rejected" /\ candleSticks' = candleSticks)
         /\ (m.k.t > candleSticks[Len(candleSticks)].openTime =>
               lastAdd' = "accepted"
               /\ StrictlyIncreasing(OpenTimes(candleSticks')))]_vars

\* C2 witness: after an earlier rejection, an append on a non-empty buffer
\* has been accepted.
C2_Witness ==
  reconnecting /\ lastAdd = "accepted" /\ lenBefore > 0

\* C3: whatever the interleaving of the history seed with the stream's
\* appends, no candle of the buffer has an openTime <= that of a candle
\* before it.
C3_BufferOrdered == StrictlyIncreasing(OpenTimes(candleSticks))

\* C4: appends never leave more than the capacity in the buffer, and the
\* append that overflows it evicts exactly the head and keeps the order of
\* the rest.
C4_BoundedAppend ==
  [][\A m \in KlineMessages :
       CandleClose(m) =>
         /\ Len(candleSticks') <= MAX_CANDLE_STICKS_LENGTH
         /\ (lastAdd' = "accepted"
             /\ Len(candleSticks) + 1 > MAX_CANDLE_STICKS_LENGTH =>
               candleSticks' =
                 Tail(candleSticks) \o <<candleSticksFromWSData(m)>>)]_vars

\* C4 witness: an append on a full buffer has been accepted.
C4_Witness ==
  /\ lastAdd = "accepted"
  /\ lenBefore = MAX_CANDLE_STICKS_LENGTH
  /\ Len(candleSticks) = MAX_CANDLE_STICKS_LENGTH

\* C5: the buffer never holds more than the capacity, after the seed and
\* after every append.
C5_BufferBounded == Len(candleSticks) <= MAX_CANDLE_STICKS_LENGTH

\* C6 as stated: after the seed with candles 1..5, the append of 6 is accepted
\* and evicts candle 1; the second append of 6 is rejected and changes nothing.
C6_ScenarioAsStated ==
  /\ scenario = 2 =>
       lastAdd = "accepted" /\ OpenTimes(candleSticks) = <<2, 3, 4, 5, 6>>
  /\ scenario = 3 =>
       lastAdd = "rejected" /\ OpenTimes(candleSticks) = <<2, 3, 4, 5, 6>>

\* C6: the seed of an empty buffer with candles 1..5 keeps 1..4; the append
\* of 6 is then accepted without an eviction; the second append of 6 is
\* rejected and leaves the buffer as it was.
C6_Scenario ==
  /\ scenario = 1 => OpenTimes(candleSticks) = <<1, 2, 3, 4>>
  /\ scenario = 2 =>
       lastAdd = "accepted" /\ OpenTimes(candleSticks) = <<1, 2, 3, 4, 6>>
  /\ scenario = 3 =>
       lastAdd = "rejected" /\ OpenTimes(candleSticks) = <<1, 2, 3, 4, 6>>

\* C6 witness: the whole scenario has run.
C6_Witness == scenario = 3

\* C7: a seed of the empty buffer with k >= 1 fetched candles leaves the
\* first k-1 of them, in the fetched order and unchanged.
C7_FirstSeed ==
  [][\A data \in Histories :
       (FetchComplete(data) /\ Len(candleSticks) = 0 /\ Len(data) >= 1) =>
         candleSticks' = [i \in 1..(Len(data) - 1) |-> RowCandle(data[i])]]_vars

\* C7 witness: the empty buffer has been seeded and holds candles.
C7_Witness == lastAdd = "seedFirst" /\ Len(candleSticks) >= 1

\* C8: a seed of a non-empty buffer keeps the buffer as a suffix and puts in
\* front of it exactly the fetched candles whose openTime is greater than
\* that of the buffer's first candle, in the fetched order.
C8_MergeSeed ==
  [][\A data \in Histories :
       (FetchComplete(data) /\ Len(candleSticks) > 0) =>
         LET k == Len(candleSticks') - Len(candleSticks)
             newer == { i \in 1..Len(data) :
                          data[i][1] > candleSticks[1].openTime }
         IN /\ k = Cardinality(newer)
            /\ SubSeq(candleSticks', k + 1, Len(candleSticks')) = candleSticks
            /\ \A j \in 1..k :
                 candleSticks'[j] = RowCandle(data[Len(data) - k + j])
            /\ \A i \in newer : i > Len(data) - k]_vars

\* C8 witness: a seed of a non-empty buffer has put candles in front of it.
C8_Witness == lastAdd = "seedMerge" /\ Len(candleSticks) > lenBefore

----------------------------------------------------------------------------
(* Properties of the trading cycle *)

OrderActions == {"size", "checkUserBalance", "wrapToken", "placeOrder"}

HasSentinel(snap) == snap.rsi = NaN \/ snap.wma = NaN \/ snap.ema = NaN

\* One base lot at the price plus 5%, against the volume.
BelowMinimumNotional(vol, price) ==
  vol * BaseLotsPerUnit * 100 < price * 105

\* C1: as long as no adapter call has failed (and no order fills), the
\* trader has at most one open order on the venue.
C1_AtMostOneOrder == ~faulted => venueOrders <= 1

\* C9: an iteration whose snapshot has a sentinel field runs no sizing,
\* balance query, wrap or placement, sleeps the short fixed interval and
\* goes on at Reconcile.
C9_SentinelSkips ==
  [][/\ (pc = "Evaluate" /\ pc' # pc /\ HasSentinel(snapshot')) =>
          /\ pc' = "SleepShort"
          /\ \A i \in 1..Len(calls') : calls'[i] \notin OrderActions
     /\ (pc = "SleepShort" /\ pc' # pc) =>
          /\ pc' = "Reconcile"
          /\ calls' = calls]_vars

\* C9 witness: the cycle sleeps the short interval on a snapshot with a
\* valid RSI and a sentinel beside it.
C9_Witness ==
  pc = "SleepShort" /\ snapshot.rsi # NaN /\ HasSentinel(snapshot)

\* C10: in an iteration whose volume is below the minimum notional at the
\* price it sampled, no balance query, wrap or placement is made, and once
\* the iteration has sized the order it is rejected there.
C10_MinimumBeforeFunds ==
  BelowMinimumNotional(volume, currentPrice) =>
    /\ ~Called("checkUserBalance")
    /\ ~Called("wrapToken")
    /\ ~Called("placeOrder")
    /\ Called("size") => pc \in {"SleepExit", "Exited"}

\* C10 witness: a volume below the minimum has been rejected.
C10_Witness ==
  pc = "SleepExit" /\ BelowMinimumNotional(volume, currentPrice)

\* The sizing of run.ts:222-256 rejects the volume at the price.
SizingFault(vol, price) ==
  \/ BelowMinimumNotional(vol, price)
  \/ numBaseLots(vol, price) = 0
  \/ numQuoteLots(vol) = 0

\* The base amount the sell of this iteration needs.
RequiredBase == requiredBaseBalance(numBaseLots(volume, currentPrice))

\* The quote value the buy of this iteration needs.
RequiredQuote == numQuoteLots(volume) * QuoteLotSize

\* The positions of a call in the calls of this iteration.
CallsOf(name) == { i \in 1..Len(calls) : calls[i] = name }

\* C11: an iteration whose sizing is rejected (volume below the minimum
\* notional, or a lot count of zero) sleeps the cooldown interval and goes on
\* at Reconcile; the loop and the process keep running.
C11_SizingFaultNotFatal ==
  (Called("size") /\ SizingFault(volume, currentPrice)) =>
    pc \in {"SleepCooldown", "Reconcile"}

\* C12: in a sell iteration that read a base balance below the required
\* amount, the wraps attempted are exactly one wrap of the shortfall when the
\* native balance covers the shortfall; otherwise there is no wrap and no
\* placement.
C12_WrapExactlyShortfall ==
  (side = "Ask" /\ balances.read /\ balances.base < RequiredBase) =>
    IF balances.sol >= RequiredBase - balances.base
    THEN wraps = <<RequiredBase - balances.base>>
    ELSE wraps = <<>> /\ ~Called("placeOrder")

\* C13: an iteration that wrapped places its order only after a balance
\* query made after the wrap.
C13_RecheckAfterWrap ==
  \A w \in CallsOf("wrapToken") : \A p \in CallsOf("placeOrder") :
    \E b \in CallsOf("checkUserBalance") : w < b /\ b < p

\* C14: a buy goes to the placement only with a quote balance, read in this
\* iteration, of at least the required quote value; with less it makes no
\* wrap and no placement, sleeps the cooldown interval and goes on at
\* Reconcile.
C14_BuyNeedsQuote ==
  [][/\ (pc = "FundCheck" /\ pc' \notin {pc, "Crashed"} /\ side = "Bid") =>
          /\ balances'.read
          /\ IF balances'.quote >= RequiredQuote
             THEN pc' = "Submit"
             ELSE /\ pc' = "SleepCooldown"
                  /\ \A i \in 1..Len(calls') :
                       calls'[i] \notin {"wrapToken", "placeOrder"}
     /\ (pc = "Submit" /\ pc' # pc /\ side = "Bid") =>
          balances.read /\ balances.quote >= RequiredQuote
     /\ (pc = "SleepCooldown" /\ pc' # pc) =>
          pc' = "Reconcile" /\ calls' = calls]_vars

\* C14 witness: a buy with a positive quote balance below the required value
\* sleeps the cooldown interval.
C14_Witness ==
  /\ pc = "SleepCooldown" /\ side = "Bid" /\ balances.read
  /\ balances.quote > 0 /\ balances.quote < RequiredQuote

\* C15: an iteration makes at most one placement call, and an iteration whose
\* placement failed does not end with the error leaving the cycle.
C15_PlacementFaultContained ==
  /\ Cardinality(CallsOf("placeOrder")) <= 1
  /\ placement = "failed" => pc # "Crashed"

\* C16: no fault of an adapter call inside an iteration ends the loop.
C16_LoopSurvivesFaults == pc # "Crashed"

----------------------------------------------------------------------------
(* Properties of the stream supervisor *)

\* The socket is connecting or open.
Live(i) == sockets[i].readyState \in {"CONNECTING", "OPEN"}

\* C17: the delays scheduled since the last open are 1000 ms, 2000 ms,
\* 3000 ms, ..., one more second for every further failure, at most 30000 ms.
C17_BackoffGrows ==
  \A k \in 1..Len(delays) : delays[k] = backoffDelay(k)

\* C18: every socket that is connecting or open is the one in the list, and
\* no socket outside the list has delivered a candle into the buffer.
C18_OneLiveSubscription ==
  /\ \A i \in Sockets : Live(i) => i \in activeCandleStickWebSockets
  /\ strayFrom = 0

\* C19: a socket that has been replaced has no pending reconnect timer and
\* sends no ping.
C19_DiscardedIsQuiet ==
  /\ \A i \in Sockets :
       i \notin activeCandleStickWebSockets => ~sockets[i].reconnecting
  /\ strayProbe = 0

\* C20: a message that cannot be parsed raises no uncaught error.
C20_UnparseableDropped == ~uncaught

----------------------------------------------------------------------------
(* Properties of the indicator snapshot *)

\* C21: with one candle fewer than the RSI period the snapshot is the
\* sentinel in every field; with exactly the period (and the live price) the
\* RSI is not the sentinel and lies in 0..100.
C21_RsiBoundary ==
  [][(pc = "Evaluate" /\ pc' # pc) =>
       /\ Len(candleSticks) = RSI_PERIOD - 1 => snapshot' = NoSnapshot
       /\ Len(candleSticks) = RSI_PERIOD =>
            ~isNaN(snapshot'.rsi) /\ snapshot'.rsi \in 0..100]_vars

\* C21 witness: an iteration has computed an RSI from exactly the period of
\* candles.
C21_Witness ==
  /\ Called("calculateIndicators")
  /\ Len(candleSticks) = RSI_PERIOD
  /\ ~isNaN(snapshot.rsi)

\* C22: the snapshot of an iteration always has the three fields rsi, wma
\* and ema, the loop does not end in the step that computes it, and when
\* calculateRSI throws all three fields are the sentinel.
C22_SnapshotTotal ==
  [][(pc = "Evaluate" /\ pc' # pc) =>
       /\ pc' # "Crashed"
       /\ DOMAIN snapshot' = {"rsi", "wma", "ema"}
       /\ (\E o \in calculateRSI(candleSticks) : o.threw) =>
            isNaN(snapshot'.rsi) /\ isNaN(snapshot'.wma) /\ isNaN(snapshot'.ema)]_vars

\* C22 witness: an iteration whose calculateRSI threw holds the all-sentinel
\* snapshot.
C22_Witness ==
  /\ Called("calculateIndicators")
  /\ Len(candleSticks) < RSI_PERIOD
  /\ pc = "SleepShort"

\* C23: traders are handled one after the other.  At most one trader's loop
\* is running, at most one iteration is in progress, and a trader's loop is
\* started only when the loop of every trader before it has ended.
C23_SequentialTraders ==
  /\ Cardinality({t \in Traders : loops[t] = "running"}) <= 1
  /\ \A t \in Traders :
       loops[t] # "idle" => \A u \in 1..(t - 1) : loops[u] = "ended"
  /\ pc \in {"Reconcile", "Evaluate", "FundCheck", "Submit", "SleepShort",
             "SleepCooldown", "SleepExit", "SleepSubmitted"}
       => Cardinality({t \in Traders : loops[t] = "running"}) = 1

C23_Witness ==
  /\ loops[1] = "running"
  /\ pc = "Submit"
  /\ \A t \in Traders \ {1} : loops[t] = "idle"

\* C24: a bootstrap fault of one trader aborts that trader only; every other
\* configured trader still has its loop started.
C24_BootstrapFaultIsolated ==
  pc = "BootFailed" => \A t \in Traders \ {keyIndex} : loops[t] # "idle"

\* C25: in an iteration whose order query succeeds, cancelAllOrders is called
\* exactly when the fetched count is positive and differs from the previous
\* count, and at the end of Reconcile the previous count is the fetched one,
\* whether or not a cancel was attempted or succeeded.
C25_ReconcileRule ==
  [][(pc = "Reconcile" /\ pc' # pc
        /\ calls' # <<"getCurrentOrders", "catch">>) =>
       /\ (\E i \in 1..Len(calls') : calls'[i] = "cancelAllOrders")
            <=> (marketOrders > 0 /\ marketOrders # previousOrderCount)
       /\ previousOrderCount' = marketOrders]_vars

\* C26: for a sentinel-free snapshot an RSI above 75 selects the sell side
\* at price * (1 + percentage / 100) and an RSI below 25 the buy side at
\* price * (1 - percentage / 100), in both modes and whatever the WMA and
\* the EMA are.  Prices are in thousandths, the percentage in tenths.
C26_ThresholdPolicy ==
  pc = "Decided" =>
    /\ snapshot.rsi > 75 =>
         /\ side = "Ask"
         /\ priceInTicks = 1000 * currentPrice + percentage * currentPrice
    /\ snapshot.rsi < 25 =>
         /\ side = "Bid"
         /\ priceInTicks = 1000 * currentPrice - percentage * currentPrice

C26_Witness ==
  /\ pc = "Decided"
  /\ sideway
  /\ snapshot.rsi = 76
  /\ snapshot.wma < WMAlimitBuy
  /\ snapshot.ema < WMAlimitBuy
  /\ side = "Ask"
  /\ currentPrice = 200
  /\ priceInTicks = 201000

\* C27: range-bound mode, 25 <= RSI <= 75.  With the RSI between the WMA
\* and the EMA (ends included) the decision is buy when WMA < buy limit and
\* no action otherwise; else with the RSI above both and WMA > sell limit
\* it is sell; in every other case it is no action.
C27_RangeBound ==
  (pc = "Decided" /\ sideway /\ snapshot.rsi >= 25 /\ snapshot.rsi <= 75) =>
    LET lo == IF snapshot.wma < snapshot.ema THEN snapshot.wma
              ELSE snapshot.ema
        hi == IF snapshot.wma < snapshot.ema THEN snapshot.ema
              ELSE snapshot.wma
    IN IF lo <= snapshot.rsi /\ snapshot.rsi <= hi
       THEN side = IF snapshot.wma < WMAlimitBuy THEN "Bid" ELSE "none"
       ELSE IF snapshot.rsi > hi /\ snapshot.wma > WMAlimitSell
       THEN side = "Ask"
       ELSE side = "none"

C27_Witness ==
  /\ pc = "Decided"
  /\ sideway
  /\ snapshot.rsi = 44
  /\ snapshot.wma = 44
  /\ snapshot.ema = 56
  /\ side = "Bid"

\* C28: trending mode, 25 <= RSI <= 75.  The decision is buy if WMA < buy
\* limit and RSI < WMA, otherwise sell if WMA > sell limit and RSI > WMA,
\* otherwise no action; it is the same for every value of the EMA.
C28_Trending ==
  (pc = "Decided" /\ ~sideway /\ snapshot.rsi >= 25 /\ snapshot.rsi <= 75) =>
    /\ side = IF snapshot.wma < WMAlimitBuy /\ snapshot.rsi < snapshot.wma
              THEN "Bid"
              ELSE IF snapshot.wma > WMAlimitSell
                      /\ snapshot.rsi > snapshot.wma
              THEN "Ask"
              ELSE "none"
    /\ \A e \in PolicyValues :
         Decide(snapshot.rsi, snapshot.wma, e, sideway) = side

C28_Witness ==
  /\ pc = "Decided"
  /\ ~sideway
  /\ snapshot.rsi = 26
  /\ snapshot.wma = 44
  /\ snapshot.ema = 24
  /\ side = "Bid"

\* C29: an iteration whose decision is no action runs no sizing, balance
\* query, wrap or placement, sleeps the configured cooldown interval (not
\* the short one) and goes on at Reconcile.
C29_NoActionCooldown ==
  [][/\ (pc = "Evaluate" /\ pc' # pc /\ ~HasSentinel(snapshot')
           /\ side' = "none") =>
          /\ pc' = "SleepCooldown"
          /\ \A i \in 1..Len(calls') : calls'[i] \notin OrderActions
     /\ (pc = "SleepCooldown" /\ ~HasSentinel(snapshot) /\ side = "none"
           /\ pc' # pc) =>
          /\ pc' = "Reconcile"
          /\ calls' = calls]_vars

C29_Witness ==
  /\ pc = "SleepCooldown"
  /\ Called("calculateIndicators")
  /\ ~HasSentinel(snapshot)
  /\ side = "none"
  /\ Decide(snapshot.rsi, snapshot.wma, snapshot.ema, sideway) = "none"

\* C30: the sizing reports a fault for the lot counts exactly when both
\* are zero; an order of at least the minimum notional with one of the two
\* counts non-zero goes on to the balance check.
C30_LotCountRule ==
  ( /\ Called("size")
    /\ ~Called("checkUserBalance")
    /\ currentPrice > 0
    /\ ~BelowMinimumNotional(volume, currentPrice)
    /\ (numBaseLots(volume, currentPrice) # 0 \/ numQuoteLots(volume) # 0) )
  => pc = "FundCheck"

\* C34: given a valid RSI series of length L, the WMA is the sentinel
\* exactly when L is below the WMA period and the EMA exactly when L is
\* below the EMA period: the RSI and the EMA can be valid beside a sentinel
\* WMA, and a valid WMA comes with a valid EMA.
C34_IndependentSentinels ==
  [][(pc = "Evaluate" /\ pc' # pc /\ Len(candleSticks) >= RSI_PERIOD) =>
       LET L == Len(candleSticks) + 1 - RSI_PERIOD
       IN /\ ~isNaN(snapshot'.rsi)
          /\ isNaN(snapshot'.wma) <=> L < WMA_PERIOD
          /\ isNaN(snapshot'.ema) <=> L < EMA_PERIOD
          /\ ~isNaN(snapshot'.wma) => ~isNaN(snapshot'.ema)]_vars

\* C34 witness: a snapshot with the RSI and the EMA valid and the WMA the
\* sentinel has sent the cycle to its short sleep.
C34_Witness ==
  /\ pc = "SleepShort"
  /\ Called("calculateIndicators")
  /\ ~isNaN(snapshot.rsi)
  /\ ~isNaN(snapshot.ema)
  /\ isNaN(snapshot.wma)

\* C36: a fault of Reconcile is contained.  When the order query throws, no
\* cancel is attempted, the previous count is left as it was and the cycle
\* goes on with Evaluate; when the cancel fails, the previous count is still
\* set to the fetched count and the cycle goes on with Evaluate.
C36_ReconcileFaultsContained ==
  [][(pc = "Reconcile" /\ pc' # pc) =>
       LET cancelled == \E i \in 1..Len(calls') :
                           calls'[i] = "cancelAllOrders"
           reloaded == \E i \in 1..Len(calls') :
                          calls'[i] = "reloadFromNetwork"
       IN /\ pc' = "Evaluate"
          /\ calls' = <<"getCurrentOrders", "catch">> =>
               ~cancelled /\ previousOrderCount' = previousOrderCount
          /\ (cancelled /\ ~reloaded) =>
               previousOrderCount' = marketOrders]_vars

\* C37: whenever the cycle has reached the policy decision, the price it
\* sampled is one a tick of the configured pair delivered, not the initial
\* value 0.
C37_PriceIsSet ==
  (Called("calculateIndicators") /\ ~HasSentinel(snapshot)) =>
    currentPrice \in Prices

\* C38: a message of the candle stream without a kline, or whose kline is
\* not closed, leaves the buffer as it is and schedules no resubscribe; a
\* message of the tick stream changes the price only through an entry of
\* the configured pair and leaves it as it is without one.
C38_OnlyClosedBarsAndPairTicks ==
  [][/\ \A i \in Sockets : \A m \in WsMessages :
          (SupMessage(i, m) /\ ~("k" \in DOMAIN m /\ m.k.x)) =>
            /\ candleSticks' = candleSticks
            /\ sockets' = sockets
            /\ delays' = delays
     /\ \A messages \in TickerMessages :
          PriceMessage(messages) =>
            /\ priceStream' # priceStream =>
                 \E k \in 1..Len(messages) :
                   messages[k].s = Pair /\ messages[k].c = priceStream'
            /\ (\A k \in 1..Len(messages) : messages[k].s # Pair) =>
                 priceStream' = priceStream]_vars

\* C38 witness: the open candle socket has appended closed bars, nothing
\* is scheduled, and the price is one only the pair's entries carry.
C38_Witness ==
  /\ sockets[1].readyState = "OPEN"
  /\ ~sockets[1].reconnecting
  /\ Len(candleSticks) = 2
  /\ lastAdd = "accepted"
  /\ priceStream = 200

\* C39: one price sample serves the iteration.  From the balance query to
\* the end of the submission the side, the sampled price, the limit price
\* and the volume stay as they are, whatever ticks arrive; the limit price
\* is the one of the sampled price and the lot counts and the minimum that
\* let the order through are those of the sampled price.
C39_SinglePriceSample ==
  [][(pc \in {"FundCheck", "Submit"}) =>
       /\ side' = side /\ side \in {"Ask", "Bid"}
       /\ currentPrice' = currentPrice
       /\ priceInTicks' = priceInTicks
       /\ volume' = volume
       /\ priceInTicks = limitPrice(currentPrice, side)
       /\ SizingOutcome(volume, currentPrice) = "FundCheck"]_vars

\* C39 witness: an order has been submitted at the limit price of a sample
\* the live price has since moved away from.
C39_Witness ==
  /\ pc = "SleepSubmitted"
  /\ Called("placeOrder")
  /\ side = "Bid"
  /\ currentPrice = 20
  /\ priceStream = 200
  /\ priceInTicks = limitPrice(20, "Bid")

WrapFailed(cs) ==
  /\ Len(cs) >= 2
  /\ cs[Len(cs) - 1] = "wrapToken"
  /\ cs[Len(cs)] = "catch"

\* C40: when wrapToken throws, no placement is attempted in the iteration,
\* the error stays inside the cycle, and the cycle sleeps the cooldown
\* interval and goes on at Reconcile.
C40_WrapFaultContained ==
  [][/\ (pc = "FundCheck" /\ pc' # pc /\ WrapFailed(calls')) =>
          /\ pc' = "SleepCooldown"
          /\ \A i \in 1..Len(calls') : calls'[i] # "placeOrder"
     /\ (pc = "SleepCooldown" /\ WrapFailed(calls) /\ pc' # pc) =>
          /\ pc' = "Reconcile"
          /\ calls' = calls]_vars

\* C40 witness: the cycle sleeps the cooldown after a failed wrap for a sell.
C40_Witness ==
  /\ pc = "SleepCooldown"
  /\ WrapFailed(calls)
  /\ side = "Ask"
  /\ Len(wraps) = 1

----------------------------------------------------------------------------
(* Properties of the reconnect() of one socket *)

\* C31: for each socket, an event that schedules a resubscribe increments
\* its attempt counter by one and schedules the delay min(1000 ms * attempt,
\* 30000 ms): the first delay is 1000 ms and none exceeds 30000 ms.  The
\* open event of the socket resets its counter to zero.
C31_BackoffPerSocket ==
  [][/\ \A i \in Sockets :
          /\ (~sockets[i].reconnecting /\ sockets'[i].reconnecting) =>
               LET attempt == sockets'[i].reconnectAttempts
               IN /\ attempt = sockets[i].reconnectAttempts + 1
                  /\ delays' = Append(delays,
                                      IF 1000 * attempt < 30000
                                      THEN 1000 * attempt ELSE 30000)
                  /\ sockets[i].reconnectAttempts = 0 =>
                       delays'[Len(delays')] = 1000
          /\ (sockets[i].readyState = "CONNECTING"
                /\ sockets'[i].readyState = "OPEN") =>
               sockets'[i].reconnectAttempts = 0
     /\ \A n \in 1..MaxAttempts :
          /\ backoffDelay(n) <= 30000
          /\ backoffDelay(n) = 1000 * n \/ 1000 * n > 30000
          /\ backoffDelay(n) = 30000 \/ 1000 * n < 30000]_vars

\* C31 witness: one socket has scheduled its second resubscribe, 2000 ms.
C31_Witness ==
  \E i \in Sockets :
    /\ sockets[i].reconnectAttempts = 2
    /\ sockets[i].reconnecting
    /\ delays = <<1000, 2000>>

\* C32: while the timer of a socket is pending no event of that socket
\* schedules another or increments its attempt counter; a timer is only
\* scheduled by a socket that has none pending.
C32_NoOverlap ==
  [][/\ \A i \in Sockets :
          sockets[i].reconnecting =>
            sockets'[i].reconnectAttempts = sockets[i].reconnectAttempts
     /\ Len(delays') > Len(delays) =>
          \E j \in Sockets :
            ~sockets[j].reconnecting /\ sockets'[j].reconnecting]_vars

\* C32 witness: a socket that errored before opening has closed while its
\* timer was pending, and still has made one attempt and one timer.
C32_Witness ==
  \E i \in Sockets :
    /\ sockets[i].reconnecting
    /\ sockets[i].readyState = "CLOSED"
    /\ ~sockets[i].pingInterval
    /\ sockets[i].reconnectAttempts = 1
    /\ delays = <<1000>>

\* C33: whenever addCandleStick returns false for a closed candle of the
\* stream, a resubscribe is scheduled and eventually a new subscription is
\* started that replaces the current one.  Stated for the first
\* subscription: while it is the only socket, lastAdd = "rejected" says
\* that its last closed candle was rejected.
C33_RejectedCandleResubscribes ==
  (Len(sockets) = 1 /\ lastAdd = "rejected")
    ~> (Len(sockets) > 1 /\ 1 \notin activeCandleStickWebSockets)

\* C35: after a resubscribe triggered by a rejected candle on an open
\* subscription, with every new connection opening and no further failure,
\* the supervisor settles with one open subscription and no pending timer:
\* the close of the connection that initCandleStickWS replaced (closing, its
\* ping interval not yet cleared) schedules no further resubscribe.
C35_ReplacedCloseIsQuiet ==
  [][\A i \in Sockets :
       (/\ sockets[i].readyState = "CLOSING"
        /\ sockets[i].pingInterval
        /\ sockets'[i].readyState = "CLOSED") =>
         /\ ~(~sockets[i].reconnecting /\ sockets'[i].reconnecting)
         /\ delays' = delays]_vars

====
